---------------------------- MODULE Spec2Model ----------------------------
(***************************************************************************)
(* A model of the nexus runtime utilities:                                 *)
(*   - nexus::exec::TaskQueue<R, P> (include/nexus/exec/queue.hpp), a      *)
(*     mutex + condition-variable guarded queue of tasks with a FIFO or    *)
(*     LIFO pop policy (include/nexus/exec/policy.hpp);                    *)
(*   - nexus::Result<T, E> (include/nexus/utils/result.hpp), a two-variant *)
(*     sum type with its combinators and zero-or-one iterators.            *)
(* The two components share no state.  SpecQueue runs the queue, SpecResult *)
(* runs operations on one Result object.                                   *)
(***************************************************************************)
EXTENDS Integers, Sequences, FiniteSets, TLC

(***************************************************************************)
(* Bounds of the model.                                                    *)
(***************************************************************************)
\* Number of distinct tasks the producers may push.
MaxTasks == 3
\* Last instant of the monotonic clock.
MaxTime == 1
\* Largest timeout handed to pop_for.
MaxTimeout == 1
\* Number of tasks pushed in the runs checked for liveness.
MaxFairTasks == 2
\* Largest payload a Result is constructed with.
MaxVal == 2

Producers == {"p1", "p2"}
Consumers == {"c1", "c2"}
Threads == Producers \cup Consumers
Tasks == 1 .. MaxTasks
Timeouts == 0 .. MaxTimeout

NoOwner == "none"

\* An owned task in transit is a sequence of at most one task; the empty
\* sequence is "no task".
NoTask == << >>
Some(t) == << t >>

\* What a pop()/pop_for() call has returned so far.
Pending == [kind |-> "pending", val |-> NoTask]     \* still inside the call
NoValue == [kind |-> "no_value", val |-> NoTask]    \* the empty std::optional
Value(t) == [kind |-> "value", val |-> Some(t)]
\* What removing from an empty container yields.
Garbage == [kind |-> "garbage", val |-> NoTask]

\* No size() call of the thread has returned since its last push().
Unread == << >>

VARIABLES
    policy,        \* template parameter P of TaskQueue<R, P>
    inner,         \* _inner: the sequence container
    lock,          \* _lock: the owning thread, or NoOwner
    waiters,       \* threads blocked on _cond
    pc,            \* where each thread is in its current call
    arg,           \* the task a producer is pushing
    nextTask,      \* next fresh task identity
    mode,          \* the call a consumer is in: "pop" or "pop_for"
    deadline,      \* absolute time at which a pop_for wait expires
    ret,           \* what a consumer's last call returned
    now,           \* the monotonic clock
    pushLog,       \* inserted tasks, in the order of insertion under the lock
    popLog,        \* removed tasks, in the order of removal under the lock
    sizeRet,       \* what the last size() call of a producer returned
    owed,          \* pop() calls that were pending when a push() returned
                   \* while a consumer was blocked, none of which has
                   \* returned yet (kept by SpecQueueFair only)
    wokenBy,       \* what ended the last wait of a consumer inside its
                   \* current call (kept by SpecWake only)
    res,           \* the Result object
    born,          \* the variant it was constructed with
    out,           \* the last call on it: arguments, object before, outcome
    it,            \* _result of a value iterator: "none" before one exists
    eit            \* _result of an error iterator

qvars == << policy, inner, lock, waiters, pc, arg, nextTask, mode, deadline,
            ret, now, pushLog, popLog, sizeRet >>

rvars == << res, born, out, it, eit >>

\* The history variables.
history == << owed, wokenBy >>

vars == << qvars, history, rvars >>

(***************************************************************************)
(* detail::TaskQueueInner<R, P>: the sequence container under the policy.  *)
(***************************************************************************)
InnerPush(q, t) == Append(q, t)

InnerSize(q) == Len(q)

\* A removal that ignores the policy and always takes the newest element.
InnerPopNewest(q, pol) ==
    [top |-> q[Len(q)], rest |-> SubSeq(q, 1, Len(q) - 1)]

\* A removal that ignores the policy and always takes the oldest element.
InnerPopOldest(q, pol) ==
    [top |-> q[1], rest |-> SubSeq(q, 2, Len(q))]

\* pop() of a non-empty container: the element the policy selects (the
\* front for FIFO, the back for LIFO) and the container without it.
InnerPop(q, pol) ==
    IF pol = "FIFO"
      THEN [top |-> q[1], rest |-> SubSeq(q, 2, Len(q))]
      ELSE [top |-> q[Len(q)], rest |-> SubSeq(q, 1, Len(q) - 1)]

\* A wait predicate that lets the waiter through on an empty container.
NonEmptyOffByOne == InnerSize(inner) >= 0

\* The wait predicate of pop and pop_for: [this]() { return _inner.size() > 0; }
NonEmpty == InnerSize(inner) > 0

\* The set of elements of a sequence.
Range(q) == {q[i] : i \in 1 .. Len(q)}

\* The inserted tasks, in order of insertion.
Pushed == [i \in 1 .. Len(pushLog) |-> pushLog[i].task]

\* push(x) has returned: x was inserted and no producer is still inside the
\* push call that inserted it.
PushReturned(x) ==
    /\ x \in Range(Pushed)
    /\ \A p \in Producers : arg[p] # Some(x)

(***************************************************************************)
(* Initial state: a default-constructed queue, every thread outside a call. *)
(***************************************************************************)
QInit ==
    /\ policy \in {"FIFO", "LIFO"}
    /\ inner = << >>
    /\ lock = NoOwner
    /\ waiters = {}
    /\ pc = [t \in Threads |-> "idle"]
    /\ arg = [p \in Producers |-> NoTask]
    /\ nextTask = 1
    /\ mode = [c \in Consumers |-> "pop"]
    /\ deadline = [c \in Consumers |-> 0]
    /\ ret = [c \in Consumers |-> Pending]
    /\ now = 0
    /\ pushLog = << >>
    /\ popLog = << >>
    /\ sizeRet = [p \in Producers |-> Unread]

(***************************************************************************)
(* push(Task<R> &&task)                                                    *)
(***************************************************************************)
\* A producer calls push with a fresh task:
\* auto guard = std::unique_lock(_lock);
PushLock(p) ==
    /\ pc[p] = "idle"
    /\ nextTask <= MaxTasks
    /\ lock = NoOwner
    /\ lock' = p
    /\ arg' = [arg EXCEPT ![p] = Some(nextTask)]
    /\ nextTask' = nextTask + 1
    /\ pc' = [pc EXCEPT ![p] = "push_insert"]
    /\ sizeRet' = [sizeRet EXCEPT ![p] = Unread]
    /\ UNCHANGED << policy, inner, waiters, mode, deadline, ret, now,
                    pushLog, popLog >>

\* _inner.push(std::move(task)); guard.unlock();
\* The log keeps, with the task, how many removals preceded its insertion.
PushInsert(p) ==
    /\ pc[p] = "push_insert"
    /\ lock = p
    /\ inner' = InnerPush(inner, arg[p][1])
    /\ pushLog' = Append(pushLog, [task |-> arg[p][1], removed |-> Len(popLog)])
    /\ lock' = NoOwner
    /\ pc' = [pc EXCEPT ![p] = "push_notify"]
    /\ UNCHANGED << policy, waiters, arg, nextTask, mode, deadline, ret, now,
                    popLog, sizeRet >>

\* A push that returns without notifying the condition variable.
PushNotifyForgotten(p) ==
    /\ pc[p] = "push_notify"
    /\ pc' = [pc EXCEPT ![p] = "idle"]
    /\ arg' = [arg EXCEPT ![p] = NoTask]
    /\ UNCHANGED << policy, inner, lock, waiters, nextTask, mode, deadline,
                    ret, now, pushLog, popLog, sizeRet >>

\* _cond.notify_one(): unblocks one of the waiting threads, if there is one;
\* then push returns.
PushNotify(p) ==
    /\ pc[p] = "push_notify"
    /\ \/ /\ waiters = {}
          /\ pc' = [pc EXCEPT ![p] = "idle"]
          /\ UNCHANGED waiters
       \/ \E c \in waiters :
             /\ waiters' = waiters \ {c}
             /\ pc' = [pc EXCEPT ![p] = "idle", ![c] = "woken"]
    /\ arg' = [arg EXCEPT ![p] = NoTask]
    /\ UNCHANGED << policy, inner, lock, nextTask, mode, deadline, ret, now,
                    pushLog, popLog, sizeRet >>

(***************************************************************************)
(* size()                                                                  *)
(***************************************************************************)
\* Some push() has returned and no element was removed since it inserted.
Undisturbed ==
    \E i \in 1 .. Len(pushLog) :
       PushReturned(pushLog[i].task) /\ pushLog[i].removed = Len(popLog)

\* A size() that reports one less than the element count.
SizeOffByOne(p) ==
    /\ pc[p] = "idle"
    /\ lock = NoOwner
    /\ sizeRet' = [sizeRet EXCEPT ![p] =
                     << [n |-> InnerSize(inner) - 1,
                         afterPush |-> \E x \in Tasks : PushReturned(x),
                         undisturbed |-> Undisturbed] >>]
    /\ UNCHANGED << policy, inner, lock, waiters, pc, arg, nextTask, mode,
                    deadline, ret, now, pushLog, popLog >>

\* auto guard = std::lock_guard(_lock); return _inner.size();
\* The guard is taken, the count read and the guard released with no step of
\* the caller in between.  Beside the count, the record keeps whether some
\* push() had returned when the call was made, and whether no element was
\* removed since a returned push() inserted.
Size(p) ==
    /\ pc[p] = "idle"
    /\ lock = NoOwner
    /\ sizeRet' = [sizeRet EXCEPT ![p] =
                     << [n |-> InnerSize(inner),
                         afterPush |-> \E x \in Tasks : PushReturned(x),
                         undisturbed |-> Undisturbed] >>]
    /\ UNCHANGED << policy, inner, lock, waiters, pc, arg, nextTask, mode,
                    deadline, ret, now, pushLog, popLog >>

(***************************************************************************)
(* pop() and pop_for(timeout)                                              *)
(***************************************************************************)
\* A consumer calls pop(): auto guard = std::unique_lock(_lock);
PopLock(c) ==
    /\ pc[c] = "idle"
    /\ lock = NoOwner
    /\ lock' = c
    /\ pc' = [pc EXCEPT ![c] = "check"]
    /\ mode' = [mode EXCEPT ![c] = "pop"]
    /\ ret' = [ret EXCEPT ![c] = Pending]
    /\ UNCHANGED << policy, inner, waiters, arg, nextTask, deadline, now,
                    pushLog, popLog, sizeRet >>

\* A consumer calls pop_for(d): auto guard = std::unique_lock(_lock); and the
\* entry of wait_for, which fixes the deadline steady_clock::now() + d.
PopForLock(c, d) ==
    /\ pc[c] = "idle"
    /\ lock = NoOwner
    /\ lock' = c
    /\ pc' = [pc EXCEPT ![c] = "check"]
    /\ mode' = [mode EXCEPT ![c] = "pop_for"]
    /\ deadline' = [deadline EXCEPT ![c] = now + d]
    /\ ret' = [ret EXCEPT ![c] = Pending]
    /\ UNCHANGED << policy, inner, waiters, arg, nextTask, now, pushLog,
                    popLog, sizeRet >>

\* One turn of the predicate loop, under the lock: while (!pred()) wait.
\* Blocking releases the lock and joins the waiters in one atomic step.
WaitCheck(c) ==
    /\ pc[c] = "check"
    /\ lock = c
    /\ IF NonEmpty
         THEN /\ pc' = [pc EXCEPT ![c] = "take"]
              /\ UNCHANGED << lock, waiters >>
         ELSE /\ pc' = [pc EXCEPT ![c] = "waiting"]
              /\ lock' = NoOwner
              /\ waiters' = waiters \cup {c}
    /\ UNCHANGED << policy, inner, arg, nextTask, mode, deadline, ret, now,
                    pushLog, popLog, sizeRet >>

\* A blocked thread may wake with no notification.
SpuriousWake(c) ==
    /\ c \in waiters
    /\ waiters' = waiters \ {c}
    /\ pc' = [pc EXCEPT ![c] = "woken"]
    /\ UNCHANGED << policy, inner, lock, arg, nextTask, mode, deadline, ret,
                    now, pushLog, popLog, sizeRet >>

\* A thread blocked in wait_for wakes when its deadline has passed.
TimeoutWake(c) ==
    /\ c \in waiters
    /\ mode[c] = "pop_for"
    /\ now >= deadline[c]
    /\ waiters' = waiters \ {c}
    /\ pc' = [pc EXCEPT ![c] = "woken"]
    /\ UNCHANGED << policy, inner, lock, arg, nextTask, mode, deadline, ret,
                    now, pushLog, popLog, sizeRet >>

\* A timed wait that reports a timeout on every wakeup.
WaitTimedOutAlways(c) == mode[c] = "pop_for"

\* Whether the timed wait that just ended reports cv_status::timeout.
WaitTimedOut(c) == mode[c] = "pop_for" /\ now >= deadline[c]

\* A wait that is not in a loop: the woken thread takes the lock again and
\* goes on to remove an element without testing the predicate.
ReacquireNoRecheck(c) ==
    /\ pc[c] = "woken"
    /\ lock = NoOwner
    /\ lock' = c
    /\ pc' = [pc EXCEPT ![c] = "take"]
    /\ UNCHANGED << policy, inner, waiters, arg, nextTask, mode, deadline,
                    ret, now, pushLog, popLog, sizeRet >>

\* The woken thread takes the lock again before the wait returns.  A timed
\* wait that reports a timeout leaves the loop with "return pred()".
Reacquire(c) ==
    /\ pc[c] = "woken"
    /\ lock = NoOwner
    /\ lock' = c
    /\ pc' = [pc EXCEPT ![c] = IF WaitTimedOut(c) THEN "expired" ELSE "check"]
    /\ UNCHANGED << policy, inner, waiters, arg, nextTask, mode, deadline,
                    ret, now, pushLog, popLog, sizeRet >>

\* status = pred() after a timeout; if (!status) return {};
FinalCheck(c) ==
    /\ pc[c] = "expired"
    /\ lock = c
    /\ IF NonEmpty
         THEN /\ pc' = [pc EXCEPT ![c] = "take"]
              /\ UNCHANGED << lock, ret, mode, deadline >>
         ELSE /\ pc' = [pc EXCEPT ![c] = "idle"]
              /\ lock' = NoOwner
              /\ ret' = [ret EXCEPT ![c] = NoValue]
              /\ mode' = [mode EXCEPT ![c] = "pop"]
              /\ deadline' = [deadline EXCEPT ![c] = 0]
    /\ UNCHANGED << policy, inner, waiters, arg, nextTask, now, pushLog,
                    popLog, sizeRet >>

\* return _inner.pop(); the guard is released on return.  Removing from an
\* empty container is undefined; the model yields Garbage and leaves the
\* container alone.
Take(c) ==
    /\ pc[c] = "take"
    /\ lock = c
    /\ LET got == IF InnerSize(inner) = 0 THEN Garbage
                  ELSE Value(InnerPop(inner, policy).top)
       IN  /\ ret' = [ret EXCEPT ![c] = got]
           /\ popLog' = Append(popLog, got.val)
    /\ inner' = IF InnerSize(inner) = 0 THEN inner
                ELSE InnerPop(inner, policy).rest
    /\ lock' = NoOwner
    /\ pc' = [pc EXCEPT ![c] = "idle"]
    /\ mode' = [mode EXCEPT ![c] = "pop"]
    /\ deadline' = [deadline EXCEPT ![c] = 0]
    /\ UNCHANGED << policy, waiters, arg, nextTask, now, pushLog, sizeRet >>

\* The monotonic clock advances.
Tick ==
    /\ now < MaxTime
    /\ now' = now + 1
    /\ UNCHANGED << policy, inner, lock, waiters, pc, arg, nextTask, mode,
                    deadline, ret, pushLog, popLog, sizeRet >>

\* The pop() calls in progress.
PendingPops == {c \in Consumers : pc[c] # "idle" /\ mode[c] = "pop"}

\* The consumers blocked on the condition variable inside pop().
BlockedPops == {c \in waiters : mode[c] = "pop"}

\* History of the step just taken: when a push() returns while a consumer is
\* blocked in pop(), the pop() calls pending at that moment become owed; the
\* debt is settled when one of them returns.
OwedStep ==
    /\ owed' =
         IF \E c \in owed : pc[c] = "take" /\ pc'[c] = "idle"
           THEN {}
         ELSE IF /\ owed = {}
                 /\ BlockedPops # {}
                 /\ \E p \in Producers :
                       pc[p] = "push_notify" /\ pc'[p] = "idle"
           THEN PendingPops
         ELSE owed
    /\ UNCHANGED << wokenBy, rvars >>

\* The steps of push, pop and pop_for, and of the clock.
QNext ==
    \/ \E p \in Producers : PushLock(p) /\ UNCHANGED << history, rvars >>
    \/ \E p \in Producers : PushInsert(p) /\ UNCHANGED << history, rvars >>
    \/ \E p \in Producers : PushNotify(p) /\ UNCHANGED << history, rvars >>
    \/ \E c \in Consumers : PopLock(c) /\ UNCHANGED << history, rvars >>
    \/ \E c \in Consumers : \E d \in Timeouts :
          PopForLock(c, d) /\ UNCHANGED << history, rvars >>
    \/ \E c \in Consumers : WaitCheck(c) /\ UNCHANGED << history, rvars >>
    \/ \E c \in Consumers : SpuriousWake(c) /\ UNCHANGED << history, rvars >>
    \/ \E c \in Consumers : TimeoutWake(c) /\ UNCHANGED << history, rvars >>
    \/ \E c \in Consumers : Reacquire(c) /\ UNCHANGED << history, rvars >>
    \/ \E c \in Consumers : FinalCheck(c) /\ UNCHANGED << history, rvars >>
    \/ \E c \in Consumers : Take(c) /\ UNCHANGED << history, rvars >>
    \/ Tick /\ UNCHANGED << history, rvars >>

\* The steps of push, size and pop.
SNext ==
    \/ \E p \in Producers : PushLock(p) /\ UNCHANGED << history, rvars >>
    \/ \E p \in Producers : PushInsert(p) /\ UNCHANGED << history, rvars >>
    \/ \E p \in Producers : PushNotify(p) /\ UNCHANGED << history, rvars >>
    \/ \E p \in Producers : Size(p) /\ UNCHANGED << history, rvars >>
    \/ \E c \in Consumers : PopLock(c) /\ UNCHANGED << history, rvars >>
    \/ \E c \in Consumers : WaitCheck(c) /\ UNCHANGED << history, rvars >>
    \/ \E c \in Consumers : SpuriousWake(c) /\ UNCHANGED << history, rvars >>
    \/ \E c \in Consumers : Reacquire(c) /\ UNCHANGED << history, rvars >>
    \/ \E c \in Consumers : Take(c) /\ UNCHANGED << history, rvars >>

\* The steps of push, pop and pop_for with the clock standing still (a
\* pop_for with timeout 0 expires at once, one with a longer timeout waits
\* like pop()), at most MaxFairTasks pushes, and the history of owed pops.
QNextOwed ==
    \/ \E p \in Producers :
          nextTask <= MaxFairTasks /\ PushLock(p) /\ OwedStep
    \/ \E p \in Producers : PushInsert(p) /\ OwedStep
    \/ \E p \in Producers : PushNotify(p) /\ OwedStep
    \/ \E c \in Consumers : PopLock(c) /\ OwedStep
    \/ \E c \in Consumers : \E d \in Timeouts : PopForLock(c, d) /\ OwedStep
    \/ \E c \in Consumers : WaitCheck(c) /\ OwedStep
    \/ \E c \in Consumers : SpuriousWake(c) /\ OwedStep
    \/ \E c \in Consumers : TimeoutWake(c) /\ OwedStep
    \/ \E c \in Consumers : Reacquire(c) /\ OwedStep
    \/ \E c \in Consumers : FinalCheck(c) /\ OwedStep
    \/ \E c \in Consumers : Take(c) /\ OwedStep

\* History of the step just taken: what ended the wait of a consumer, a
\* notification, a spurious wakeup or the timeout.  A wakeup that comes when
\* the deadline of the wait has already passed counts as the timeout.  The
\* history is kept while the consumer stays inside the call and forgotten
\* when the call returns.
WokenStep(by) ==
    /\ wokenBy' =
         [c \in Consumers |->
            IF pc[c] = "waiting" /\ pc'[c] = "woken"
              THEN IF WaitTimedOut(c) THEN "timeout" ELSE by
            ELSE IF pc'[c] = "idle" THEN "none"
            ELSE wokenBy[c]]
    /\ UNCHANGED << owed, rvars >>

\* The steps of push, pop and pop_for, and of the clock, with at most
\* MaxFairTasks pushes and the history of what woke each consumer.
WNext ==
    \/ \E p \in Producers :
          nextTask <= MaxFairTasks /\ PushLock(p) /\ WokenStep("none")
    \/ \E p \in Producers : PushInsert(p) /\ WokenStep("none")
    \/ \E p \in Producers : PushNotify(p) /\ WokenStep("notify")
    \/ \E c \in Consumers : PopLock(c) /\ WokenStep("none")
    \/ \E c \in Consumers : \E d \in Timeouts :
          PopForLock(c, d) /\ WokenStep("none")
    \/ \E c \in Consumers : WaitCheck(c) /\ WokenStep("none")
    \/ \E c \in Consumers : SpuriousWake(c) /\ WokenStep("spurious")
    \/ \E c \in Consumers : TimeoutWake(c) /\ WokenStep("timeout")
    \/ \E c \in Consumers : Reacquire(c) /\ WokenStep("none")
    \/ \E c \in Consumers : FinalCheck(c) /\ WokenStep("none")
    \/ \E c \in Consumers : Take(c) /\ WokenStep("none")
    \/ Tick /\ WokenStep("none")

\* The steps a thread takes by itself once it is inside a call.
ProducerStep(p) == PushInsert(p) \/ PushNotify(p)
ConsumerStep(c) == WaitCheck(c) \/ Reacquire(c) \/ FinalCheck(c) \/ Take(c)

\* Fair scheduling: a thread inside a call that can take a step infinitely
\* often (the lock may be busy in between) eventually takes it.  Calls are
\* not forced to start and no spurious wakeup is forced to happen.
Fairness ==
    /\ \A p \in Producers : SF_vars(ProducerStep(p) /\ OwedStep)
    /\ \A c \in Consumers : SF_vars(ConsumerStep(c) /\ OwedStep)

(***************************************************************************)
(* nexus::Result<T, E>.                                                    *)
(*                                                                         *)
(* One Result object `res` is operated on by one thread.  Both payload     *)
(* types are modelled by the integers of Values.  A call returns a set of  *)
(* endings, one per outcome the call can have: reading a payload that has  *)
(* been moved out yields an unspecified value, and undefined behaviour     *)
(* yields every outcome a build can produce.                               *)
(***************************************************************************)
Values == 0 .. MaxVal

\* ValueType(): the value-initialised payload.
DefaultValue == 0

\* Caller-supplied messages of expect / expect_err.
Messages == {"m1", "m2"}

\* Callables handed to the combinators, and what they compute.
Convs == {"succ", "zero"}
Conv(conv, v) == IF conv = "succ" THEN v + 1 ELSE 0

Preds == {"is_zero", "any"}
Pred(pred, v) == IF pred = "is_zero" THEN v = 0 ELSE TRUE

\* Result(Ok(v)) and Result(Err(e)): the constructor forwards to the variant.
\* `moved` tells that the payload has been moved out of the object.
Ok(v) == [holds |-> "Ok", val |-> v, moved |-> FALSE]
Err(e) == [holds |-> "Err", val |-> e, moved |-> FALSE]

\* Callables returning a Result (both_and, either_or).
ConvResult(conv, v) == IF conv = "succ" THEN Ok(v + 1) ELSE Err(v)

\* The arguments of a call; the ones a call does not take stay empty.
NoArgs == [msg |-> "", value |-> << >>, conv |-> "", func |-> "",
           pred |-> "", other |-> << >>]

\* The outcome of a call: what it returned or raised, and the payloads its
\* callables were invoked with.
NoMessage == [text |-> "", arg |-> << >>]
Outcome(k) == [kind |-> k, holds |-> "", val |-> << >>, flag |-> FALSE,
               err |-> "", msg |-> NoMessage, seen |-> << >>]
Return(v) == [Outcome("value") EXCEPT !.val = << v >>]
ReturnBool(b) == [Outcome("bool") EXCEPT !.flag = b]
ReturnResult(h, v) == [Outcome("result") EXCEPT !.holds = h, !.val = << v >>]
ReturnIterator(p) == [Outcome("iterator") EXCEPT !.holds = p]
\* throw Error(kind, text, args...)
Error(k, text, a) ==
    [Outcome("raise") EXCEPT !.err = k, !.msg = [text |-> text, arg |-> a]]
\* The process is terminated abnormally, or the call never returns.
Crash == Outcome("crash")
Hang == Outcome("hang")
Invoked(o, v) == [o EXCEPT !.seen = Append(@, v)]

\* An ending of a call: its outcome and the object it leaves behind.
Done(o, r) == [o |-> o, after |-> r]

\* The endings of a call that returned a value, the value returned, and the
\* endings that raised: an exception propagates through the caller.
Returned(ends) == {e \in ends : e.o.kind = "value"}
Got(e) == e.o.val[1]
Raised(ends) == {e \in ends : e.o.kind = "raise"}

\* Before the first call.
NoCall == [op |-> "", args |-> NoArgs, pre |-> Ok(DefaultValue),
           ptr |-> "none", o |-> Outcome("")]

\* std::get_if<alt>(&_base()) != nullptr: the variant holds alternative alt.
get_if(r, alt) == r.holds = alt

\* The mutation of is_err that tests the wrong alternative.
is_err_wrong_alternative(r) == get_if(r, "Ok")

is_err(r) == get_if(r, "Err")

is_ok(r) == get_if(r, "Ok")

\* The payload as a reader finds it: unspecified once it has been moved out.
Read(r) == IF r.moved THEN Values ELSE {r.val}

\* The object after std::move of its payload was consumed; the variant keeps
\* its alternative.
Moved(r) == [r EXCEPT !.moved = TRUE]

\* Iterator(Result&), ErrorIterator(Result&), and the default-constructed
\* iterators: _result is the object's address or nullptr.
Iterator(r) == IF is_err(r) THEN "null" ELSE "this"
ErrorIterator(r) == IF is_ok(r) THEN "null" ELSE "this"
begin(r) == Iterator(r)
end == "null"
ebegin(r) == ErrorIterator(r)
eend == "null"

\* An operator++ that leaves the iterator where it is.
IncrementStays(p) == p

\* operator++ of both iterators.
Increment(p) == "null"

\* operator== of both iterators: the two hold the same _result pointer.
IteratorEquals(p, q) == p = q

\* ErrorEnumerator::begin and ErrorEnumerator::end of the enumerator that
\* error_enumerator() makes of the object: its ebegin() and eend().
enumerator_begin(r) == ebegin(r)
enumerator_end == eend

\* _result->_base() through a null _result is undefined behaviour: the null
\* reaches std::get_if, which answers nullptr, and the throw follows; or the
\* member call on a null pointer ends the process.
NullDereference(r) ==
    {Done(Error("Unwrap", "Result cannot be dereferenced", << >>), r),
     Done(Crash, r)}

\* Iterator::operator* (alt = "Ok") and ErrorIterator::operator* (alt = "Err").
Dereference(p, r, alt) ==
    IF p = "null" THEN NullDereference(r)
    ELSE IF get_if(r, alt) THEN {Done(Return(v), r) : v \in Read(r)}
    ELSE {Done(Error("Unwrap", "Result cannot be dereferenced", << >>), r)}

unwrap(r) ==
    IF r.holds = "Ok"
      THEN {Done(Return(v), Moved(r)) : v \in Read(r)}
      ELSE {Done(Error("Unwrap", "Result is an error ({})", << e >>), r) :
              e \in Read(r)}

unwrap_err(r) ==
    IF r.holds = "Err"
      THEN {Done(Return(e), Moved(r)) : e \in Read(r)}
      ELSE {Done(Error("Unwrap", "Result is not an error ({})", << v >>), r) :
              v \in Read(r)}

unwrap_or(r, value) ==
    IF r.holds = "Ok"
      THEN {Done(Return(v), Moved(r)) : v \in Read(r)}
      ELSE {Done(Return(value), r)}

\* unwrap_or(const ValueType &)
unwrap_or_const_ref(r, value) == unwrap_or(r, value)

unwrap_or_default(r) == unwrap_or(r, DefaultValue)

\* expect(std::string &&)
expect(r, msg) ==
    IF is_ok(r) THEN unwrap(r) ELSE {Done(Error("Unwrap", msg, << >>), r)}

\* Control reaches the closing brace of a function returning a value:
\* undefined behaviour.  The caller reads whatever the return slot holds,
\* or the process is terminated, or the call never comes back.
FlowsOffTheEnd(r) ==
    {Done(Return(v), r) : v \in Values} \cup {Done(Crash, r), Done(Hang, r)}

\* expect(const std::string &): calls expect(std::string(msg)), discards
\* what it returns and has no return statement.
expect_const_ref(r, msg) ==
    UNION {FlowsOffTheEnd(e.after) : e \in Returned(expect(r, msg))}
      \cup Raised(expect(r, msg))

\* expect_err(std::string &&)
expect_err(r, msg) ==
    IF is_err(r) THEN unwrap_err(r)
    ELSE {Done(Error("Unwrap", msg, << >>), r)}

\* expect_err(const std::string &)
expect_err_const_ref(r, msg) == expect_err(r, msg)

\* pred receives std::move(payload); whether the payload is moved out
\* depends on how pred takes its parameter.
is_ok_and(r, pred) ==
    IF get_if(r, "Ok")
      THEN {Done(Invoked(ReturnBool(Pred(pred, v)), v), a) :
              v \in Read(r), a \in {r, Moved(r)}}
      ELSE {Done(ReturnBool(FALSE), r)}

is_err_and(r, pred) ==
    IF get_if(r, "Err")
      THEN {Done(Invoked(ReturnBool(Pred(pred, e)), e), a) :
              e \in Read(r), a \in {r, Moved(r)}}
      ELSE {Done(ReturnBool(FALSE), r)}

\* The range-for loop over [begin(), end()): func sees the payload once when
\* begin() differs from end(); then the object is returned by move.
inspect(r) ==
    {Done(IF begin(r) = end THEN ReturnResult(r.holds, v)
          ELSE Invoked(ReturnResult(r.holds, v), v), Moved(r)) :
       v \in Read(r)}

\* The same loop over error_enumerator(): [ebegin(), eend()).
inspect_err(r) ==
    {Done(IF ebegin(r) = eend THEN ReturnResult(r.holds, e)
          ELSE Invoked(ReturnResult(r.holds, e), e), Moved(r)) :
       e \in Read(r)}

\* The mutation of map that forwards the value without applying conv.
map_without_conv(r, conv) ==
    IF is_ok(r)
      THEN {Done(Invoked(ReturnResult("Ok", Got(e)), Got(e)), e.after) :
              e \in Returned(unwrap(r))} \cup Raised(unwrap(r))
      ELSE {Done(ReturnResult("Err", Got(e)), e.after) :
              e \in Returned(unwrap_err(r))} \cup Raised(unwrap_err(r))

map(r, conv) ==
    IF is_ok(r)
      THEN {Done(Invoked(ReturnResult("Ok", Conv(conv, Got(e))), Got(e)),
                 e.after) :
              e \in Returned(unwrap(r))} \cup Raised(unwrap(r))
      ELSE {Done(ReturnResult("Err", Got(e)), e.after) :
              e \in Returned(unwrap_err(r))} \cup Raised(unwrap_err(r))

map_err(r, conv) ==
    IF is_err(r)
      THEN {Done(Invoked(ReturnResult("Err", Conv(conv, Got(e))), Got(e)),
                 e.after) :
              e \in Returned(unwrap_err(r))} \cup Raised(unwrap_err(r))
      ELSE {Done(ReturnResult("Ok", Got(e)), e.after) :
              e \in Returned(unwrap(r))} \cup Raised(unwrap(r))

map_or(r, value, conv) ==
    IF is_ok(r)
      THEN {Done(Invoked(Return(Conv(conv, Got(e))), Got(e)), e.after) :
              e \in Returned(unwrap(r))} \cup Raised(unwrap(r))
      ELSE {Done(Return(value), r)}

map_or_default(r, conv) == map_or(r, DefaultValue, conv)

map_or_else(r, func, conv) ==
    IF is_ok(r)
      THEN {Done(Invoked(Return(Conv(conv, Got(e))), Got(e)), e.after) :
              e \in Returned(unwrap(r))} \cup Raised(unwrap(r))
      ELSE {Done(Invoked(Return(Conv(func, Got(e))), Got(e)), e.after) :
              e \in Returned(unwrap_err(r))} \cup Raised(unwrap_err(r))

both(r, other) ==
    IF is_err(r)
      THEN {Done(ReturnResult("Err", Got(e)), e.after) :
              e \in Returned(unwrap_err(r))} \cup Raised(unwrap_err(r))
      ELSE {Done(ReturnResult(other.holds, other.val), r)}

both_and(r, conv) ==
    IF is_err(r)
      THEN {Done(ReturnResult("Err", Got(e)), e.after) :
              e \in Returned(unwrap_err(r))} \cup Raised(unwrap_err(r))
      ELSE {Done(Invoked(ReturnResult(ConvResult(conv, Got(e)).holds,
                                      ConvResult(conv, Got(e)).val), Got(e)),
                 e.after) :
              e \in Returned(unwrap(r))} \cup Raised(unwrap(r))

either(r, other) ==
    IF is_err(r)
      THEN {Done(ReturnResult(other.holds, other.val), r)}
      ELSE {Done(ReturnResult("Ok", Got(e)), e.after) :
              e \in Returned(unwrap(r))} \cup Raised(unwrap(r))

either_or(r, conv) ==
    IF is_err(r)
      THEN {Done(Invoked(ReturnResult(ConvResult(conv, Got(e)).holds,
                                      ConvResult(conv, Got(e)).val), Got(e)),
                 e.after) :
              e \in Returned(unwrap_err(r))} \cup Raised(unwrap_err(r))
      ELSE {Done(ReturnResult("Ok", Got(e)), e.after) :
              e \in Returned(unwrap(r))} \cup Raised(unwrap(r))

\* The object right after construction; no call yet, no iterator yet.
RInit ==
    /\ res \in {Ok(v) : v \in Values} \cup {Err(e) : e \in Values}
    /\ born = res.holds
    /\ out = NoCall
    /\ it = "none"
    /\ eit = "none"

\* The thread is still running: no earlier call ended the process or hangs.
Running == out.o.kind \notin {"crash", "hang"}

\* One call on the object: it ends in one of its endings.
Call(op, a, ends) ==
    /\ Running
    /\ \E e \in ends :
          /\ out' = [op |-> op, args |-> a, pre |-> res, ptr |-> "none",
                     o |-> e.o]
          /\ res' = e.after
    /\ UNCHANGED << born, it, eit >>

IsOk == Call("is_ok", NoArgs, {Done(ReturnBool(is_ok(res)), res)})

IsErr == Call("is_err", NoArgs, {Done(ReturnBool(is_err(res)), res)})

IsOkAnd(pred) ==
    Call("is_ok_and", [NoArgs EXCEPT !.pred = pred], is_ok_and(res, pred))

IsErrAnd(pred) ==
    Call("is_err_and", [NoArgs EXCEPT !.pred = pred], is_err_and(res, pred))

Inspect == Call("inspect", NoArgs, inspect(res))

InspectErr == Call("inspect_err", NoArgs, inspect_err(res))

Unwrap == Call("unwrap", NoArgs, unwrap(res))

UnwrapErr == Call("unwrap_err", NoArgs, unwrap_err(res))

UnwrapOr(value) ==
    Call("unwrap_or", [NoArgs EXCEPT !.value = << value >>],
         unwrap_or(res, value))

UnwrapOrConstRef(value) ==
    Call("unwrap_or_const_ref", [NoArgs EXCEPT !.value = << value >>],
         unwrap_or_const_ref(res, value))

UnwrapOrDefault == Call("unwrap_or_default", NoArgs, unwrap_or_default(res))

Expect(msg) == Call("expect", [NoArgs EXCEPT !.msg = msg], expect(res, msg))

ExpectConstRef(msg) ==
    Call("expect_const_ref", [NoArgs EXCEPT !.msg = msg],
         expect_const_ref(res, msg))

ExpectErr(msg) ==
    Call("expect_err", [NoArgs EXCEPT !.msg = msg], expect_err(res, msg))

ExpectErrConstRef(msg) ==
    Call("expect_err_const_ref", [NoArgs EXCEPT !.msg = msg],
         expect_err_const_ref(res, msg))

Map(conv) == Call("map", [NoArgs EXCEPT !.conv = conv], map(res, conv))

MapErr(conv) ==
    Call("map_err", [NoArgs EXCEPT !.conv = conv], map_err(res, conv))

MapOr(value, conv) ==
    Call("map_or", [NoArgs EXCEPT !.value = << value >>, !.conv = conv],
         map_or(res, value, conv))

MapOrDefault(conv) ==
    Call("map_or_default", [NoArgs EXCEPT !.conv = conv],
         map_or_default(res, conv))

MapOrElse(func, conv) ==
    Call("map_or_else", [NoArgs EXCEPT !.func = func, !.conv = conv],
         map_or_else(res, func, conv))

Both(other) ==
    Call("both", [NoArgs EXCEPT !.other = << other >>], both(res, other))

BothAnd(conv) ==
    Call("both_and", [NoArgs EXCEPT !.conv = conv], both_and(res, conv))

Either(other) ==
    Call("either", [NoArgs EXCEPT !.other = << other >>], either(res, other))

EitherOr(conv) ==
    Call("either_or", [NoArgs EXCEPT !.conv = conv], either_or(res, conv))

\* A call that makes or moves an iterator; the object is not touched.
IteratorCall(op, p) ==
    /\ Running
    /\ out' = [op |-> op, args |-> NoArgs, pre |-> res, ptr |-> p,
               o |-> ReturnIterator(p)]
    /\ UNCHANGED << res, born >>

\* auto it = res.begin();  auto it = res.end();  ++it;
Begin == IteratorCall("begin", begin(res)) /\ it' = begin(res) /\ eit' = eit

End == IteratorCall("end", end) /\ it' = end /\ eit' = eit

IncrementIt ==
    /\ it # "none"
    /\ IteratorCall("increment", Increment(it))
    /\ it' = Increment(it)
    /\ eit' = eit

\* auto eit = res.ebegin();  auto eit = res.eend();  ++eit;  The enumerator
\* of error_enumerator() hands out the same two iterators.
EBegin ==
    IteratorCall("ebegin", ebegin(res)) /\ eit' = ebegin(res) /\ it' = it

EEnd == IteratorCall("eend", eend) /\ eit' = eend /\ it' = it

IncrementEit ==
    /\ eit # "none"
    /\ IteratorCall("eincrement", Increment(eit))
    /\ eit' = Increment(eit)
    /\ it' = it

\* auto eit = res.error_enumerator().begin();  and  .end();
EnumeratorBegin ==
    /\ IteratorCall("enumerator_begin", enumerator_begin(res))
    /\ eit' = enumerator_begin(res)
    /\ it' = it

EnumeratorEnd ==
    /\ IteratorCall("enumerator_end", enumerator_end)
    /\ eit' = enumerator_end
    /\ it' = it

\* *it and *eit
DereferenceCall(op, p, ends) ==
    /\ Running
    /\ p # "none"
    /\ \E e \in ends :
          /\ out' = [op |-> op, args |-> NoArgs, pre |-> res, ptr |-> p,
                     o |-> e.o]
          /\ res' = e.after
    /\ UNCHANGED << born, it, eit >>

DereferenceIt == DereferenceCall("deref", it, Dereference(it, res, "Ok"))

DereferenceEit == DereferenceCall("ederef", eit, Dereference(eit, res, "Err"))

\* The results passed to both() and either().
Others == {Ok(DefaultValue), Err(DefaultValue)}

\* The calls a thread can make on the object.
RNext ==
    \/ IsOk /\ UNCHANGED << qvars, history >>
    \/ IsErr /\ UNCHANGED << qvars, history >>
    \/ \E pred \in Preds : IsOkAnd(pred) /\ UNCHANGED << qvars, history >>
    \/ \E pred \in Preds : IsErrAnd(pred) /\ UNCHANGED << qvars, history >>
    \/ Inspect /\ UNCHANGED << qvars, history >>
    \/ InspectErr /\ UNCHANGED << qvars, history >>
    \/ Unwrap /\ UNCHANGED << qvars, history >>
    \/ UnwrapErr /\ UNCHANGED << qvars, history >>
    \/ \E v \in Values : UnwrapOr(v) /\ UNCHANGED << qvars, history >>
    \/ \E v \in Values : UnwrapOrConstRef(v) /\ UNCHANGED << qvars, history >>
    \/ UnwrapOrDefault /\ UNCHANGED << qvars, history >>
    \/ \E msg \in Messages : Expect(msg) /\ UNCHANGED << qvars, history >>
    \/ \E msg \in Messages : ExpectConstRef(msg) /\ UNCHANGED << qvars, history >>
    \/ \E msg \in Messages : ExpectErr(msg) /\ UNCHANGED << qvars, history >>
    \/ \E msg \in Messages :
          ExpectErrConstRef(msg) /\ UNCHANGED << qvars, history >>
    \/ \E conv \in Convs : Map(conv) /\ UNCHANGED << qvars, history >>
    \/ \E conv \in Convs : MapErr(conv) /\ UNCHANGED << qvars, history >>
    \/ \E v \in Values, conv \in Convs :
          MapOr(v, conv) /\ UNCHANGED << qvars, history >>
    \/ \E conv \in Convs : MapOrDefault(conv) /\ UNCHANGED << qvars, history >>
    \/ \E func \in Convs, conv \in Convs :
          MapOrElse(func, conv) /\ UNCHANGED << qvars, history >>
    \/ \E other \in Others : Both(other) /\ UNCHANGED << qvars, history >>
    \/ \E conv \in Convs : BothAnd(conv) /\ UNCHANGED << qvars, history >>
    \/ \E other \in Others : Either(other) /\ UNCHANGED << qvars, history >>
    \/ \E conv \in Convs : EitherOr(conv) /\ UNCHANGED << qvars, history >>
    \/ Begin /\ UNCHANGED << qvars, history >>
    \/ End /\ UNCHANGED << qvars, history >>
    \/ IncrementIt /\ UNCHANGED << qvars, history >>
    \/ EBegin /\ UNCHANGED << qvars, history >>
    \/ EEnd /\ UNCHANGED << qvars, history >>
    \/ IncrementEit /\ UNCHANGED << qvars, history >>
    \/ EnumeratorBegin /\ UNCHANGED << qvars, history >>
    \/ EnumeratorEnd /\ UNCHANGED << qvars, history >>
    \/ DereferenceIt /\ UNCHANGED << qvars, history >>
    \/ DereferenceEit /\ UNCHANGED << qvars, history >>

\* While the queue runs, the Result object is not operated on.
ResultIdle ==
    /\ res = Ok(DefaultValue)
    /\ born = res.holds
    /\ out = NoCall
    /\ it = "none"
    /\ eit = "none"

(***************************************************************************)
(* The specifications.                                                     *)
(***************************************************************************)
NotWoken == [c \in Consumers |-> "none"]

InitQueue == QInit /\ owed = {} /\ wokenBy = NotWoken /\ ResultIdle

SpecQueue == InitQueue /\ [][QNext]_vars

SpecSize == InitQueue /\ [][SNext]_vars

SpecQueueFair == InitQueue /\ [][QNextOwed]_vars /\ Fairness

SpecWake == InitQueue /\ [][WNext]_vars

InitResult ==
    QInit /\ policy = "FIFO" /\ owed = {} /\ wokenBy = NotWoken /\ RInit

SpecResult == InitResult /\ [][RNext]_vars

(***************************************************************************)
(* Properties of the task queue.                                           *)
(***************************************************************************)
\* How many times v occurs in the sequence q.
Count(q, v) == Cardinality({i \in 1 .. Len(q) : q[i] = v})

\* Task t was removed, and it was removal number i.
PoppedAt(t, i) == i \in 1 .. Len(popLog) /\ popLog[i] = Some(t)

\* Task t was removed before removal number j.
PoppedBefore(t, j) == \E i \in 1 .. j - 1 : PoppedAt(t, i)

\* Every push so far was inserted before any removal, and n tasks were
\* pushed and n removed: "push 1 .. n followed by n pops".
SerialRun(n) ==
    /\ Len(pushLog) = n
    /\ Len(popLog) = n
    /\ \A i \in 1 .. n : pushLog[i].removed = 0

\* C1: no loss and no duplication.  Every pushed task is distinct; at any
\* moment each pushed task is either still in the container or was returned
\* by exactly one pop, and nothing but pushed tasks is ever returned; so once
\* the queue is drained the returned tasks are exactly the pushed ones.
C1_NoLossNoDuplication ==
    /\ Count(popLog, NoTask) = 0
    /\ \A t \in Tasks :
          /\ Count(Pushed, t) <= 1
          /\ Count(popLog, Some(t)) + Count(inner, t) = Count(Pushed, t)
    /\ inner = << >> => Len(popLog) = Len(pushLog)

\* C1 witness: every task was pushed, the queue is drained, every call has
\* returned and both consumers received a task.
C1_Witness ==
    /\ Len(pushLog) = MaxTasks
    /\ inner = << >>
    /\ \A p \in Producers : pc[p] = "idle"
    /\ \A c \in Consumers : pc[c] = "idle" /\ ret[c].kind = "value"

\* C2: under FIFO, a task inserted before another is removed before it: if
\* the later one was popped, the earlier one was popped at an earlier
\* position.  In particular n pushes followed by n pops yield push order.
C2_FifoOrder ==
    policy = "FIFO" =>
      /\ \A b \in 1 .. Len(pushLog) : \A j \in 1 .. Len(popLog) :
            PoppedAt(Pushed[b], j) =>
              \A a \in 1 .. b - 1 : PoppedBefore(Pushed[a], j)
      /\ \A n \in 1 .. MaxTasks :
            SerialRun(n) => popLog = [i \in 1 .. n |-> Some(Pushed[i])]

\* C2 witness: pops interleaved with pushes, all tasks came out and both
\* consumers received one.
C2_Witness ==
    /\ policy = "FIFO"
    /\ Len(popLog) = MaxTasks
    /\ pushLog[MaxTasks].removed > 0
    /\ \A c \in Consumers : ret[c].kind = "value"

\* C3 as stated: under LIFO, a task inserted after another is always popped
\* before it.
C3_LifoOrderOriginal ==
    policy = "LIFO" =>
      \A a \in 1 .. Len(pushLog) : \A i \in 1 .. Len(popLog) :
         PoppedAt(Pushed[a], i) =>
           \A b \in a + 1 .. Len(pushLog) : PoppedBefore(Pushed[b], i)

\* Task number a of the push order was still in the container when task
\* number b was inserted.
StillQueuedAt(a, b) == ~PoppedBefore(Pushed[a], pushLog[b].removed + 1)

\* C3 amended: under LIFO, if A was inserted before B and A was still in the
\* queue when B was inserted, B is popped before A.  In particular n pushes
\* followed by n pops yield reverse push order.
C3_LifoOrder ==
    policy = "LIFO" =>
      /\ \A a \in 1 .. Len(pushLog) : \A i \in 1 .. Len(popLog) :
            PoppedAt(Pushed[a], i) =>
              \A b \in a + 1 .. Len(pushLog) :
                 StillQueuedAt(a, b) => PoppedBefore(Pushed[b], i)
      /\ \A n \in 1 .. MaxTasks :
            SerialRun(n) =>
              popLog = [i \in 1 .. n |-> Some(Pushed[n + 1 - i])]

\* C3 witness: every task went in before the first removal and every task
\* came out.
C3_Witness ==
    /\ policy = "LIFO"
    /\ SerialRun(MaxTasks)
    /\ \A c \in Consumers : ret[c].kind = "value"

\* A pop_for call of consumer c returns in this step.
PopForReturns(c) ==
    /\ mode[c] = "pop_for"
    /\ pc[c] \in {"expired", "take"}
    /\ pc'[c] = "idle"

\* C5: a pop_for call returns either a value or "no value" (it never raises).
\* It returns "no value" only under the lock, once its deadline has passed,
\* with the container empty, and then removes nothing; otherwise the
\* container was not empty and it removes exactly one element and returns it.
C5_PopFor ==
    [][\A c \in Consumers :
         PopForReturns(c) =>
           /\ ret'[c].kind \in {"value", "no_value"}
           /\ ret'[c] = NoValue =>
                /\ now >= deadline[c]
                /\ lock = c
                /\ inner = << >>
                /\ inner' = inner
                /\ popLog' = popLog
           /\ ret'[c] # NoValue =>
                /\ inner # << >>
                /\ Len(inner') = Len(inner) - 1
                /\ Range(inner) \ Range(inner') = {ret'[c].val[1]}
                /\ popLog' = Append(popLog, ret'[c].val)]_vars

\* C5 witness: a pop_for call returned "no value" after the clock advanced,
\* in a run in which elements were popped too.
C5_Witness ==
    /\ \E c \in Consumers : ret[c] = NoValue
    /\ popLog # << >>
    /\ now > 0

\* C6 as stated: a size() call made after some push() returned reports at
\* least one element.
C6_SizeAfterPushOriginal ==
    \A p \in Producers :
       (sizeRet[p] # Unread /\ sizeRet[p][1].afterPush) => sizeRet[p][1].n >= 1

\* C6 amended: a size() call made after push(x) returned reports at least one
\* element provided no pop has removed an element since x was inserted.
C6_SizeAfterPush ==
    \A p \in Producers :
       (sizeRet[p] # Unread /\ sizeRet[p][1].undisturbed) =>
          sizeRet[p][1].n >= 1

\* C6 witness: after earlier removals a push returned and a size() call found
\* its element.
C6_Witness ==
    /\ popLog # << >>
    /\ \E p \in Producers :
          sizeRet[p] # Unread /\ sizeRet[p][1].undisturbed

\* C4 as stated: when a push() returns while a consumer is blocked in pop(),
\* one of the pop() calls pending at that moment eventually returns.
C4_PendingPopReturnsOriginal == (owed # {}) ~> (owed = {})

\* C4 amended: no wakeup is lost.  No execution stays forever in a state in
\* which the queue is non-empty, no push is in progress and a consumer is
\* blocked in pop().
C4_NoLostWakeup ==
    \A c \in Consumers :
       ~<>[](NonEmpty /\ (\A p \in Producers : pc[p] = "idle")
                      /\ c \in BlockedPops)

\* C4 witness: a push has returned, its element is still queued and a
\* consumer is still blocked in pop() (the notified one has not run yet).
C4_Witness ==
    /\ NonEmpty
    /\ \A p \in Producers : pc[p] = "idle"
    /\ BlockedPops # {}



\* No removal from an empty container: a consumer about to remove holds the
\* lock and the container is not empty, no call returned what an empty
\* container gives, and every removal recorded is a task.
NoPopFromEmpty ==
    /\ \A c \in Consumers : pc[c] = "take" => lock = c /\ NonEmpty
    /\ \A c \in Consumers : ret[c] # Garbage
    /\ \A i \in 1 .. Len(popLog) : popLog[i] # NoTask

\* Every step that shortens the container is the removal of a consumer that
\* holds the lock and saw the predicate true under this hold of the lock.
RemovalUnderLock ==
    Len(inner') < Len(inner) =>
      \E c \in Consumers :
         /\ lock = c
         /\ pc[c] = "take"
         /\ NonEmpty
         /\ pc'[c] = "idle"
         /\ Len(inner') = Len(inner) - 1

\* Consumer c, woken spuriously or by a notification, tests the predicate
\* under the lock in this step and finds the container empty.
WokenFindsEmpty(c) ==
    /\ wokenBy[c] \in {"spurious", "notify"}
    /\ pc[c] \in {"check", "expired"}
    /\ lock = c
    /\ ~NonEmpty
    /\ pc'[c] # pc[c]

\* Consumer c blocks on the condition variable again and removes nothing.
BackToWaiting(c) ==
    /\ pc'[c] = "waiting"
    /\ c \in waiters'
    /\ inner' = inner
    /\ popLog' = popLog

\* The pop_for of consumer c, its deadline passed, returns "no value" and
\* removes nothing.
ReturnsNoValue(c) ==
    /\ mode[c] = "pop_for"
    /\ now >= deadline[c]
    /\ pc'[c] = "idle"
    /\ ret'[c] = NoValue
    /\ inner' = inner
    /\ popLog' = popLog

\* C12 as stated: pop() and pop_for() never remove from an empty queue, every
\* removal is made under the lock after the predicate was found true under
\* that hold of the lock, and a consumer woken spuriously, or by a
\* notification whose element another consumer took, goes back to waiting.
C12_WokenGoesBackToWaitingOriginal ==
    /\ []NoPopFromEmpty
    /\ [][RemovalUnderLock]_vars
    /\ [][\A c \in Consumers : WokenFindsEmpty(c) => BackToWaiting(c)]_vars

\* C12, amended: as above, and the woken consumer that finds the queue empty
\* removes nothing: it goes back to waiting, or, in pop_for when the deadline
\* has passed, it returns "no value".
C12_NoPopFromEmpty ==
    /\ []NoPopFromEmpty
    /\ [][RemovalUnderLock]_vars
    /\ [][\A c \in Consumers :
            WokenFindsEmpty(c) => BackToWaiting(c) \/ ReturnsNoValue(c)]_vars

\* C12 witness: a consumer woken by a notification found the queue empty,
\* the element having been removed by another consumer, and waits again.
C12_Witness ==
    \E c \in Consumers :
       /\ wokenBy[c] = "notify"
       /\ pc[c] = "waiting"
       /\ c \in waiters
       /\ inner = << >>
       /\ Len(popLog) > 0
       /\ NoPopFromEmpty

(***************************************************************************)
(* Properties of Result<T, E>.                                             *)
(***************************************************************************)
\* The last call was op and it was made on a live object, one whose payload
\* had not been moved out.
LiveCall(op) == out.op = op /\ ~out.pre.moved

\* The outcome "raised an Error of kind Unwrap", with no value returned.
RaisedUnwrap(o) == o.kind = "raise" /\ o.err = "Unwrap" /\ o.val = << >>

\* C7: exactly one of is_ok() and is_err() is true in every reachable state,
\* and the object holds the variant chosen at construction whatever calls
\* were made on it; the answers of is_ok() and is_err() tell that variant.
C7_DiscriminantStable ==
    /\ is_ok(res) # is_err(res)
    /\ res.holds = born
    /\ out.op # "" => out.pre.holds = born
    /\ out.op = "is_ok" => out.o = ReturnBool(born = "Ok")
    /\ out.op = "is_err" => out.o = ReturnBool(born = "Err")

\* C7 witness: is_err() is asked of an Err whose payload an earlier
\* consuming call has moved out, while iterators of both kinds exist.
C7_Witness ==
    /\ out.op = "is_err"
    /\ out.o.flag
    /\ out.pre.moved
    /\ it # "none"
    /\ eit # "none"

\* C8: map(conv) on Ok(v) returns Ok(conv(v)) with conv invoked exactly once,
\* on v; map(conv) on Err(e) returns Err(e) without invoking conv.
C8_Map ==
    LiveCall("map") =>
      IF out.pre.holds = "Ok"
        THEN out.o = Invoked(ReturnResult("Ok", Conv(out.args.conv,
                                                      out.pre.val)),
                             out.pre.val)
        ELSE out.o = ReturnResult("Err", out.pre.val)

\* C8 witness: map(succ) was applied to a live Ok(v) with v > 0.
C8_Witness ==
    /\ LiveCall("map")
    /\ out.args.conv = "succ"
    /\ out.pre.holds = "Ok"
    /\ out.pre.val > 0
    /\ out.o.kind = "result"

\* C9 as stated: unwrap() on Err, unwrap_err() on Ok and dereferencing an end
\* iterator each raise an Error of kind Unwrap and return no value; on the
\* matching variant unwrap() / unwrap_err() return the payload.
C9_MisuseRaisesUnwrap ==
    /\ (out.op = "unwrap" /\ out.pre.holds = "Err") => RaisedUnwrap(out.o)
    /\ (out.op = "unwrap_err" /\ out.pre.holds = "Ok") => RaisedUnwrap(out.o)
    /\ (out.op \in {"deref", "ederef"} /\ out.ptr = "null") =>
          RaisedUnwrap(out.o)
    /\ (LiveCall("unwrap") /\ out.pre.holds = "Ok") =>
          out.o = Return(out.pre.val)
    /\ (LiveCall("unwrap_err") /\ out.pre.holds = "Err") =>
          out.o = Return(out.pre.val)

\* C9, the failing case: an end iterator was dereferenced and the call did
\* not raise.
C9_Witness ==
    /\ out.op \in {"deref", "ederef"}
    /\ out.ptr = "null"
    /\ ~RaisedUnwrap(out.o)

\* C10 as stated: both overloads of expect(msg) return v on Ok(v) and raise
\* Unwrap with the message msg on Err; both overloads of expect_err(msg)
\* return e on Err(e) and raise Unwrap with the message msg on Ok.
C10_Expect ==
    /\ \A op \in {"expect", "expect_const_ref"} :
          LiveCall(op) =>
            IF out.pre.holds = "Ok"
              THEN out.o = Return(out.pre.val)
              ELSE out.o = Error("Unwrap", out.args.msg, << >>)
    /\ \A op \in {"expect_err", "expect_err_const_ref"} :
          LiveCall(op) =>
            IF out.pre.holds = "Err"
              THEN out.o = Return(out.pre.val)
              ELSE out.o = Error("Unwrap", out.args.msg, << >>)

\* C10, the failing case: expect(const std::string &) on a live Ok(v) did
\* not return v.
C10_Witness ==
    /\ LiveCall("expect_const_ref")
    /\ out.pre.holds = "Ok"
    /\ out.o # Return(out.pre.val)


\* C11: value iteration over a live Result visits [v] for Ok(v) and nothing
\* for Err: begin() equals end() exactly on Err, dereferencing an iterator
\* that is not at the end yields the payload v, one increment makes the
\* iterator equal to end(), which is the default-constructed iterator, and
\* the range-for loop of inspect() shows its callable v once on Ok and never
\* on Err.  Error iteration, through ebegin()/eend() or through
\* error_enumerator(), is the dual over the Err payload.
C11_ZeroOrOneIteration ==
    /\ out.op = "begin" =>
          (IteratorEquals(out.ptr, end) <=> out.pre.holds = "Err")
    /\ out.op \in {"ebegin", "enumerator_begin"} =>
          (IteratorEquals(out.ptr, eend) <=> out.pre.holds = "Ok")
    /\ out.op \in {"end", "eend", "enumerator_end"} => out.ptr = "null"
    /\ out.op = "increment" =>
          IteratorEquals(it, end) /\ IteratorEquals(out.ptr, end)
    /\ out.op = "eincrement" =>
          IteratorEquals(eit, eend) /\ IteratorEquals(out.ptr, eend)
    /\ ~IteratorEquals(it, end) /\ it # "none" => born = "Ok"
    /\ ~IteratorEquals(eit, eend) /\ eit # "none" => born = "Err"
    /\ (LiveCall("deref") /\ ~IteratorEquals(out.ptr, end)) =>
          out.o = Return(out.pre.val)
    /\ (LiveCall("ederef") /\ ~IteratorEquals(out.ptr, eend)) =>
          out.o = Return(out.pre.val)
    /\ LiveCall("inspect") =>
          out.o.seen = IF out.pre.holds = "Ok" THEN << out.pre.val >>
                       ELSE << >>
    /\ LiveCall("inspect_err") =>
          out.o.seen = IF out.pre.holds = "Err" THEN << out.pre.val >>
                       ELSE << >>

\* C11 witness: the begin() iterator of a live Ok(v), v > 0, was dereferenced
\* and gave v, while an error iterator of the same object sits at its end.
C11_Witness ==
    /\ LiveCall("deref")
    /\ out.ptr = "this"
    /\ out.pre.holds = "Ok"
    /\ out.pre.val > 0
    /\ out.o = Return(out.pre.val)
    /\ eit = eend

=============================================================================
